---- MODULE Spec2Model ----
(***************************************************************************)
(* rust-streak (src/rust-streak/src/main.rs): one run of main.  The run    *)
(* fetches the profile, the repositories and the contribution calendar,    *)
(* builds the per-day index, computes the current streak, the longest      *)
(* streak and the trailing 30-day window, renders the badge and writes     *)
(* streak.svg.                                                             *)
(*                                                                         *)
(* A u32 is the pair <<hi, lo>> of its two 16-bit halves, so that values   *)
(* up to 2^32 - 1 and the wrap at 2^32 are exact.  A date string           *)
(* "YYYY-MM-DD" is the triple <<y, m, d>> of its three numeric fields; a   *)
(* NaiveDate is its day number (days since 1970-01-01).  The calendar's    *)
(* weeks are one sequence of days, in the order the two nested loops visit *)
(* them.  current_streak, longest and active_30 are i32 and stay far below *)
(* 2^31: each is at most the number of indexed days, or 30.                *)
(***************************************************************************)
EXTENDS Integers, Sequences, FiniteSets

VARIABLES
    pc,                  \* position of main
    result,              \* "running", "Ok", "Err" (main returned Err), "panic",
                         \* "killed" (by a signal)
    environ,             \* the process environment: GH_TOKEN, GITHUB_TOKEN
    overflow_checks,     \* the build: TRUE panics on overflow, FALSE wraps
    sent,                \* requests sent so far, per endpoint
    outcome,             \* how each endpoint answered ("none": not asked)
    user,                \* User
    repos,               \* Vec<Repo>: the stargazers_count of each
    total_stars,
    calendar,            \* ContributionCalendar: total_contributions, days
    today,
    daily_contributions, \* HashMap<NaiveDate, u32>
    current_streak,
    d,
    lookups,             \* evaluations of the current-streak loop condition
    longest,
    i,                   \* the window loop's next i (29 down to 0; -1: over)
    active_30,
    commits_30,
    bars,                \* the <rect> elements pushed so far: x, y, height
    svg,                 \* the rendered document's interpolated values
    file                 \* streak.svg: untouched by the run, partly written
                         \* (created or truncated, a prefix of the document),
                         \* or written (holding the document)

vars == <<pc, result, environ, overflow_checks, sent, outcome, user, repos,
          total_stars, calendar, today, daily_contributions, current_streak,
          d, lookups, longest, i, active_30, commits_30, bars, svg, file>>

----------------------------------------------------------------------------
(* Bounds of the model.                                                    *)

MaxEntries == 3

SeqsUpTo(S, n) == UNION {[1..k -> S] : k \in 0..n}

----------------------------------------------------------------------------
(* u32 arithmetic.                                                         *)

Half == 2 ^ 16

U32(n) == <<n \div Half, n % Half>>

MaxU32 == <<Half - 1, Half - 1>>

IsPositive(c) == c[1] > 0 \/ c[2] > 0

\* a + b as the unbounded pair: the high half may exceed 16 bits
WideAdd(a, b) == <<a[1] + b[1] + ((a[2] + b[2]) \div Half), (a[2] + b[2]) % Half>>

Overflows(w) == w[1] >= Half

Wrap(w) == <<w[1] % Half, w[2]>>

----------------------------------------------------------------------------
(* Calendar dates.                                                         *)

IsLeap(y) == (y % 4 = 0 /\ y % 100 # 0) \/ y % 400 = 0

DaysInMonth(y, m) ==
    IF m = 2 THEN (IF IsLeap(y) THEN 29 ELSE 28)
    ELSE IF m \in {4, 6, 9, 11} THEN 30 ELSE 31

\* the day number of the calendar date y-m-d (days since 1970-01-01)
DaysFromCivil(y, m, dd) ==
    LET yy  == IF m <= 2 THEN y - 1 ELSE y
        era == yy \div 400
        yoe == yy - era * 400
        mp  == IF m > 2 THEN m - 3 ELSE m + 9
        doy == ((153 * mp + 2) \div 5) + dd - 1
        doe == yoe * 365 + (yoe \div 4) - (yoe \div 100) + doy
    IN  era * 146097 + doe - 719468

\* NaiveDate::parse_from_str(s, "%Y-%m-%d"): Err unless the fields name a
\* day of the calendar
ParseFromStr(s) ==
    IF s[2] \in 1..12 /\ s[3] >= 1 /\ s[3] <= DaysInMonth(s[1], s[2])
    THEN [ok |-> TRUE, date |-> DaysFromCivil(s[1], s[2], s[3])]
    ELSE [ok |-> FALSE, date |-> 0]

----------------------------------------------------------------------------
(* The environment and the token.                                          *)

Unset == "<unset>"

\* str::trim on the values the environment can hold here
Trim(s) == CASE s = "  " -> ""
             [] s = " ghp_a " -> "ghp_a"
             [] OTHER -> s

TokenKeys == <<"GH_TOKEN", "GITHUB_TOKEN">>

RECURSIVE FirstToken(_, _)
FirstToken(env, k) ==
    IF k > Len(TokenKeys) THEN [some |-> FALSE, token |-> ""]
    ELSE IF env[TokenKeys[k]] # Unset /\ Trim(env[TokenKeys[k]]) # ""
         THEN [some |-> TRUE, token |-> Trim(env[TokenKeys[k]])]
         ELSE FirstToken(env, k + 1)

get_github_token(env) == FirstToken(env, 1)

----------------------------------------------------------------------------
(* The index.                                                              *)

EmptyMap == [x \in {} |-> U32(0)]

\* a map that keeps the value a key already has
InsertIfAbsent(map, k, v) ==
    [x \in DOMAIN map \cup {k} |-> IF x \in DOMAIN map THEN map[x] ELSE v]

\* HashMap::insert
Insert(map, k, v) == [x \in DOMAIN map \cup {k} |-> IF x = k THEN v ELSE map[x]]

\* the loop over the calendar's days: Err at the first date that does not
\* parse, else the map after every insert
RECURSIVE InsertAll(_, _)
InsertAll(days, map) ==
    IF days = <<>> THEN [ok |-> TRUE, map |-> map]
    ELSE LET p == ParseFromStr(Head(days).date)
         IN  IF ~p.ok THEN [ok |-> FALSE, map |-> map]
             ELSE InsertAll(Tail(days),
                            Insert(map, p.date, Head(days).contribution_count))

\* daily_contributions.get(&day).cloned().unwrap_or(0)
Lookup(map, day) == IF day \in DOMAIN map THEN map[day] ELSE U32(0)

----------------------------------------------------------------------------
(* Checked and wrapping addition, and the sum of the stars.                *)

\* a + b on u32: a panic when the build checks overflow, else the wrap
Add32(a, b, checks) ==
    LET w == WideAdd(a, b)
    IN  IF Overflows(w) /\ checks THEN [panic |-> TRUE, value |-> a]
        ELSE [panic |-> FALSE, value |-> Wrap(w)]

\* repos.iter().map(|r| r.stargazers_count).sum()
RECURSIVE SumU32(_, _, _)
SumU32(xs, acc, checks) ==
    IF xs = <<>> THEN [panic |-> FALSE, value |-> acc]
    ELSE LET r == Add32(acc, Head(xs), checks)
         IN  IF r.panic THEN r ELSE SumU32(Tail(xs), r.value, checks)

----------------------------------------------------------------------------
(* The longest streak.                                                     *)

\* the dates of the index with count > 0
PositiveDays(map) == {x \in DOMAIN map : IsPositive(map[x])}

\* days.sort()
RECURSIVE SortAsc(_)
SortAsc(S) ==
    IF S = {} THEN <<>>
    ELSE LET m == CHOOSE x \in S : \A y \in S : x <= y
         IN  <<m>> \o SortAsc(S \ {m})

\* a scan that starts a run at 0
RECURSIVE ScanDaysFromZero(_, _, _, _)
ScanDaysFromZero(days, prev, streak, best) ==
    IF days = <<>> THEN best
    ELSE LET day == Head(days)
             s   == IF prev # <<>> /\ day = prev[1] + 1 THEN streak + 1 ELSE 0
             b   == IF s > best THEN s ELSE best
         IN  ScanDaysFromZero(Tail(days), <<day>>, s, b)

\* the scan over the sorted days; prev is <<>> for None and <<p>> for Some(p)
RECURSIVE ScanDays(_, _, _, _)
ScanDays(days, prev, streak, best) ==
    IF days = <<>> THEN best
    ELSE LET day == Head(days)
             s   == IF prev # <<>> /\ day = prev[1] + 1 THEN streak + 1 ELSE 1
             b   == IF s > best THEN s ELSE best
         IN  ScanDays(Tail(days), <<day>>, s, b)

\* a scan over every date of the index, whatever its count
LongestStreakUnfiltered(map) == ScanDays(SortAsc(DOMAIN map), <<>>, 0, 0)

LongestStreak(map) == ScanDays(SortAsc(PositiveDays(map)), <<>>, 0, 0)

----------------------------------------------------------------------------
(* The window and the bars.                                                *)

WindowDays == 30

BarScale == 6

BarBase == 4

BarClamp == 5

BarLeft == 24

BarPitch == 6

BarBaseline == 160

\* count.min(5)
MinClamp(c) == IF c[1] > 0 \/ c[2] > BarClamp THEN BarClamp ELSE c[2]

\* (count.min(5) * 6) + 4
Height(c) == (MinClamp(c) * BarScale) + BarBase

\* bars laid out newest day first
BarNewestFirst(k, c) == [x |-> BarLeft + k * BarPitch,
                         y |-> BarBaseline - Height(c),
                         height |-> Height(c)]

\* the <rect> pushed for loop index k and count c
Bar(k, c) == [x |-> BarLeft + ((WindowDays - 1) - k) * BarPitch,
              y |-> BarBaseline - Height(c),
              height |-> Height(c)]

----------------------------------------------------------------------------
(* The run of main.                                                        *)

Endpoints == {"profile", "repos", "graphql"}

\* how a request through get_json can end
JsonOutcomes == {"transport", "status", "decode", "ok"}

\* how the GraphQL request can end: as above, or a decoded response with an
\* errors list, or one without data / user
GraphQlOutcomes == JsonOutcomes \cup {"errors", "nodata"}

\* get_json returns Ok only for a success status whose body decodes
GetJsonOk(o) == o = "ok"

\* a calendar request that does not look at the errors list
CalendarOkIgnoringErrors(o) == o \in {"ok", "errors"}

\* get_contribution_calendar returns Ok only for a success status whose body
\* decodes, carries no errors and holds data.user
CalendarOk(o) == o = "ok"

NoUser == [public_repos |-> U32(0), followers |-> U32(0), following |-> U32(0)]

NoCalendar == [total_contributions |-> U32(0), days |-> <<>>]

\* streak.svg as it was before the run, absent or not
Untouched == [state |-> "untouched", doc |-> <<>>]

InitWith(Envs, Builds) ==
    /\ pc = "profile"
    /\ result = "running"
    /\ environ \in Envs
    /\ overflow_checks \in Builds
    /\ sent = [e \in Endpoints |-> 0]
    /\ outcome = [e \in Endpoints |-> "none"]
    /\ user = NoUser
    /\ repos = <<>>
    /\ total_stars = U32(0)
    /\ calendar = NoCalendar
    /\ today = 0
    /\ daily_contributions = EmptyMap
    /\ current_streak = 0
    /\ d = 0
    /\ lookups = 0
    /\ longest = 0
    /\ i = WindowDays - 1
    /\ active_30 = 0
    /\ commits_30 = U32(0)
    /\ bars = <<>>
    /\ svg = <<>>
    /\ file = Untouched

inVars == <<environ, overflow_checks>>

fetched == <<user, repos, total_stars, calendar, today>>

metrics == <<daily_contributions, current_streak, d, lookups, longest, i,
             active_30, commits_30, bars>>

outVars == <<svg, file>>

\* main returns Err(..)
ReturnErr == pc' = "error" /\ result' = "Err"

\* main panics
Panic == pc' = "panic" /\ result' = "panic"

\* lines 168-169: the profile request
FetchProfile(Users) ==
    /\ pc = "profile"
    /\ sent' = [sent EXCEPT !.profile = @ + 1]
    /\ \E o \in JsonOutcomes :
         /\ outcome' = [outcome EXCEPT !.profile = o]
         /\ IF GetJsonOk(o)
            THEN /\ user' \in Users
                 /\ pc' = "repos"
                 /\ result' = result
            ELSE /\ user' = user
                 /\ ReturnErr
    /\ UNCHANGED <<inVars, repos, total_stars, calendar, today, metrics, outVars>>

\* lines 172-176: the repositories request
FetchRepos(RepoLists) ==
    /\ pc = "repos"
    /\ sent' = [sent EXCEPT !.repos = @ + 1]
    /\ \E o \in JsonOutcomes :
         /\ outcome' = [outcome EXCEPT !.repos = o]
         /\ IF GetJsonOk(o)
            THEN /\ repos' \in RepoLists
                 /\ pc' = "stars"
                 /\ result' = result
            ELSE /\ repos' = repos
                 /\ ReturnErr
    /\ UNCHANGED <<inVars, user, total_stars, calendar, today, metrics, outVars>>

\* line 178: total_stars
SumStars ==
    /\ pc = "stars"
    /\ LET r == SumU32(repos, U32(0), overflow_checks)
       IN  IF r.panic
           THEN /\ Panic
                /\ total_stars' = total_stars
           ELSE /\ pc' = "calendar"
                /\ result' = result
                /\ total_stars' = r.value
    /\ UNCHANGED <<inVars, sent, outcome, user, repos, calendar, today, metrics,
                   outVars>>

\* line 181: get_contribution_calendar; no request without a token
FetchCalendar(DateStrs, Counts, Totals) ==
    /\ pc = "calendar"
    /\ IF ~get_github_token(environ).some
       THEN /\ ReturnErr
            /\ UNCHANGED <<sent, outcome, calendar>>
       ELSE /\ sent' = [sent EXCEPT !.graphql = @ + 1]
            /\ \E o \in GraphQlOutcomes :
                 /\ outcome' = [outcome EXCEPT !.graphql = o]
                 /\ IF CalendarOk(o)
                    THEN /\ \E t \in Totals :
                            \E ds \in SeqsUpTo([date : DateStrs,
                                                contribution_count : Counts],
                                               MaxEntries) :
                              calendar' = [total_contributions |-> t, days |-> ds]
                         /\ pc' = "today"
                         /\ result' = result
                    ELSE /\ calendar' = calendar
                         /\ ReturnErr
    /\ UNCHANGED <<inVars, user, repos, total_stars, today, metrics, outVars>>

\* line 182: today
ReadClock(Todays) ==
    /\ pc = "today"
    /\ \E t \in Todays : today' = ParseFromStr(t).date
    /\ pc' = "index"
    /\ UNCHANGED <<result, inVars, sent, outcome, user, repos, total_stars,
                   calendar, metrics, outVars>>

\* lines 184-190: the index; the loop takes calendar.weeks by value, so the
\* days are gone after it, also when it returns early.  When a date does not
\* parse, the map holds the entries inserted before it.
BuildIndex ==
    /\ pc = "index"
    /\ calendar' = [calendar EXCEPT !.days = <<>>]
    /\ LET r == InsertAll(calendar.days, EmptyMap)
       IN  /\ daily_contributions' = r.map
           /\ IF r.ok
              THEN /\ pc' = "streak"
                   /\ result' = result
              ELSE ReturnErr
    /\ UNCHANGED <<inVars, sent, outcome, user, repos, total_stars, today,
                   current_streak, d, lookups, longest, i, active_30,
                   commits_30, bars, outVars>>

\* the condition of the current-streak loop
StreakContinues(map, day) == IsPositive(Lookup(map, day))

\* a walk that skips a day
StepBackTwo(day) == day - 2

\* a walk that stays on its day
StepStay(day) == day

\* the day the walk looks at next
StepBack(day) == day - 1

\* lines 193-194: the walk starts at today
StartWalk ==
    /\ pc = "streak"
    /\ current_streak' = 0
    /\ d' = today
    /\ lookups' = 0
    /\ pc' = "current"
    /\ UNCHANGED <<result, inVars, sent, outcome, fetched, daily_contributions,
                   longest, i, active_30, commits_30, bars, outVars>>

\* lines 195-198: one evaluation of the loop condition and, when it holds,
\* the body
CurrentStreakStep ==
    /\ pc = "current"
    /\ lookups' = lookups + 1
    /\ IF StreakContinues(daily_contributions, d)
       THEN /\ current_streak' = current_streak + 1
            /\ d' = StepBack(d)
            /\ pc' = "current"
       ELSE /\ current_streak' = current_streak
            /\ d' = d
            /\ pc' = "longest"
    /\ UNCHANGED <<result, inVars, sent, outcome, fetched, daily_contributions,
                   longest, i, active_30, commits_30, bars, outVars>>

\* lines 201-222: the longest streak
LongestStep ==
    /\ pc = "longest"
    /\ longest' = LongestStreak(daily_contributions)
    /\ pc' = "window"
    /\ UNCHANGED <<result, inVars, sent, outcome, fetched, daily_contributions,
                   current_streak, d, lookups, i, active_30, commits_30, bars,
                   outVars>>

\* lines 229-245, one iteration of the window loop, for i = 29 down to 0;
\* line 234 has counted the day when line 235 panics
WindowStep ==
    /\ pc = "window"
    /\ i >= 0
    /\ LET day   == today - i
           count == Lookup(daily_contributions, day)
           r     == Add32(commits_30, count, overflow_checks)
       IN  IF IsPositive(count) /\ r.panic
           THEN /\ Panic
                /\ active_30' = active_30 + 1
                /\ UNCHANGED <<i, commits_30, bars>>
           ELSE /\ active_30' = IF IsPositive(count) THEN active_30 + 1
                                ELSE active_30
                /\ commits_30' = IF IsPositive(count) THEN r.value
                                 ELSE commits_30
                /\ bars' = Append(bars, Bar(i, count))
                /\ i' = i - 1
                /\ pc' = IF i = 0 THEN "render" ELSE "window"
                /\ result' = result
    /\ UNCHANGED <<inVars, sent, outcome, fetched, daily_contributions,
                   current_streak, d, lookups, longest, outVars>>

\* lines 248-348: the document
Render ==
    /\ pc = "render"
    /\ svg' = <<[current_streak |-> current_streak,
                 longest |-> longest,
                 active_30 |-> active_30,
                 bars |-> bars,
                 repos |-> user.public_repos,
                 stars |-> total_stars,
                 followers |-> user.followers,
                 following |-> user.following,
                 commits_30 |-> commits_30,
                 total_contributions |-> calendar.total_contributions]>>
    /\ pc' = "write"
    /\ UNCHANGED <<result, inVars, sent, outcome, fetched, metrics, file>>

\* how fs::write can end: the document written; the file not opened; the
\* write failing after the file was created or truncated; the process killed
\* by a signal during the write (SIGXFSZ at a file-size limit)
WriteOutcomes == {"ok", "open_failed", "write_failed", "killed"}

\* lines 350-351: fs::write
WriteFile ==
    /\ pc = "write"
    /\ \E o \in WriteOutcomes :
         CASE o = "ok" ->
                /\ file' = [state |-> "written", doc |-> svg]
                /\ pc' = "done"
                /\ result' = "Ok"
           [] o = "open_failed" ->
                /\ file' = file
                /\ ReturnErr
           [] o = "write_failed" ->
                /\ file' = [state |-> "partial", doc |-> <<>>]
                /\ ReturnErr
           [] o = "killed" ->
                /\ file' = [state |-> "partial", doc |-> <<>>]
                /\ pc' = "killed"
                /\ result' = "killed"
    /\ UNCHANGED <<inVars, sent, outcome, fetched, metrics, svg>>

Main(Users, RepoLists, DateStrs, Counts, Totals, Todays) ==
    \/ FetchProfile(Users)
    \/ FetchRepos(RepoLists)
    \/ SumStars
    \/ FetchCalendar(DateStrs, Counts, Totals)
    \/ ReadClock(Todays)
    \/ BuildIndex
    \/ StartWalk
    \/ CurrentStreakStep
    \/ LongestStep
    \/ WindowStep
    \/ Render
    \/ WriteFile

----------------------------------------------------------------------------
(* The inputs of the runs checked.                                         *)

Users == {[public_repos |-> U32(12), followers |-> U32(34), following |-> U32(5)]}

Totals == {U32(321)}

Todays == {<<2024, 3, 1>>, <<2024, 3, 2>>}

\* one token key set, or none usable
EnvsFew == {[GH_TOKEN |-> Unset, GITHUB_TOKEN |-> "  "],
            [GH_TOKEN |-> " ghp_a ", GITHUB_TOKEN |-> Unset]}

\* every combination of unset, empty, blank, padded and plain values
EnvsAll == [{"GH_TOKEN", "GITHUB_TOKEN"} -> {Unset, "", "  ", " ghp_a ", "ghp_b"}]

\* Spec: the shapes of a calendar.  The oldest day of the window, the days
\* around the leap day and today, a date string that names no day, and
\* counts below and above the clamp.
DateStrs == {<<2024, 2, 1>>, <<2024, 2, 27>>, <<2024, 2, 28>>, <<2024, 2, 29>>, <<2024, 3, 1>>,
             <<2024, 3, 2>>, <<2024, 2, 30>>}

Counts == {U32(0), U32(1), U32(7)}

RepoLists == {<<U32(3), U32(4)>>}

Init == InitWith(EnvsFew, BOOLEAN)

Next == Main(Users, RepoLists, DateStrs, Counts, Totals, Todays)

Spec == Init /\ [][Next]_vars

\* SpecSmall: the same calendars with two counts and one build, for the
\* checks that cost most per state
SmallCounts == {U32(0), U32(1)}

SmallInit == InitWith(EnvsFew, {FALSE})

SmallNext == Main(Users, RepoLists, DateStrs, SmallCounts, Totals, Todays)

SpecSmall == SmallInit /\ [][SmallNext]_vars

\* FairSpec: a run that goes on while a step is possible, over the days
\* from the leap day's eve on, all of which parse
FairDateStrs == {<<2024, 2, 28>>, <<2024, 2, 29>>, <<2024, 3, 1>>, <<2024, 3, 2>>}

FairNext == Main(Users, RepoLists, FairDateStrs, SmallCounts, Totals, Todays)

FairSpec == SmallInit /\ [][FairNext]_vars /\ WF_vars(FairNext)

\* SpecSums: the sizes of the counts.  The days at the two ends of the
\* window and just outside it, counts around the clamp and at the top of u32,
\* and star counts whose sum passes 2^32.
SumDateStrs == {<<2024, 1, 31>>, <<2024, 2, 1>>, <<2024, 3, 1>>}

SumCounts == {U32(0), U32(1), U32(6), U32(10), MaxU32}

SumRepoLists == {<<>>, <<U32(3), U32(4)>>, <<MaxU32, U32(1)>>, <<MaxU32, MaxU32>>}

SumsInit == InitWith(EnvsFew, BOOLEAN)

SumsNext == Main(Users, SumRepoLists, SumDateStrs, SumCounts, Totals, Todays)

SpecSums == SumsInit /\ [][SumsNext]_vars

\* SpecAcq: the acquisition.  Every environment, a date that parses and one
\* that does not.
AcqDateStrs == {<<2024, 3, 1>>, <<2024, 13, 1>>}

AcqCounts == {U32(1)}

AcqInit == InitWith(EnvsAll, {FALSE})

AcqNext == Main(Users, RepoLists, AcqDateStrs, AcqCounts, Totals, Todays)

SpecAcq == AcqInit /\ [][AcqNext]_vars

----------------------------------------------------------------------------
(* What the claims speak of, stated on the index itself.                   *)

DateOf(y, m, dd) == DaysFromCivil(y, m, dd)

\* the day has an entry with a count above zero
Active(day) ==
    day \in DOMAIN daily_contributions /\ daily_contributions[day] # <<0, 0>>

IndexSize == Cardinality(DOMAIN daily_contributions)

\* the positions main has passed
AfterStreak == pc \in {"longest", "window", "render", "write", "done"}

AfterLongest == pc \in {"window", "render", "write", "done"}

AfterWindow == pc \in {"render", "write", "done"}

\* n consecutive active days starting at day s
RunAt(s, n) == \A k \in 0..(n - 1) : Active(s + k)

\* the length of the longest run of consecutive active days of the index
MaxRunLen ==
    CHOOSE n \in 0..IndexSize :
        /\ n = 0 \/ \E s \in DOMAIN daily_contributions : RunAt(s, n)
        /\ \A m \in (n + 1)..IndexSize :
               ~ \E s \in DOMAIN daily_contributions : RunAt(s, m)

\* C1: when the n days ending today are active and the day before them is
\* not, the current-streak loop leaves current_streak = n (0 when today is
\* not active).
C1_CurrentStreak ==
    AfterStreak =>
        \A n \in 0..IndexSize :
            (RunAt(today - n + 1, n) /\ ~Active(today - n)) => current_streak = n

\* a streak of three days that crosses the leap day
C1_Witness ==
    /\ pc = "longest"
    /\ today = DateOf(2024, 3, 1)
    /\ RunAt(DateOf(2024, 2, 28), 3)
    /\ ~Active(DateOf(2024, 2, 27))
    /\ current_streak = 3

\* C2: longest is the length of the longest run of consecutive active days of
\* the index, 0 when no day is active; MaxRunLen reads the index alone, not
\* today.
C2_Longest == AfterLongest => longest = MaxRunLen

\* a run of two, a gap of missing days, and an isolated active day
C2_Witness ==
    /\ pc = "window"
    /\ Active(DateOf(2024, 2, 1))
    /\ RunAt(DateOf(2024, 2, 28), 2)
    /\ ~Active(DateOf(2024, 2, 27))
    /\ ~Active(DateOf(2024, 3, 1))
    /\ longest = 2

\* C3: longest >= current_streak.
C3_LongestAtLeastCurrent == AfterLongest => longest >= current_streak

\* a current streak of two, which is also the longest run
C3_Witness ==
    /\ pc = "window"
    /\ current_streak = 2
    /\ longest = 2

\* the days of the fetched calendar, parsed
EntryDate(k) == ParseFromStr(calendar.days[k].date).date

\* the count the last entry for the day carries, 0 when there is none
LastCount(day) ==
    LET ks == {k \in 1..Len(calendar.days) : EntryDate(k) = day}
    IN  IF ks = {} THEN <<0, 0>>
        ELSE calendar.days[CHOOSE k \in ks : \A j \in ks : j <= k].contribution_count

\* the reorderings of 1..n, for every length a calendar can have
Reorderings ==
    [n \in 0..MaxEntries |->
        {p \in [1..n -> 1..n] : \A a, b \in 1..n : a # b => p[a] # p[b]}]

NoDuplicateDates ==
    \A a, b \in 1..Len(calendar.days) : a # b => EntryDate(a) # EntryDate(b)

\* C4: the index maps each date to the count of its last entry and every
\* other date to 0; and the entries of a calendar without duplicate dates give
\* the same index in any order.  The streaks, the window counts and the bars
\* are computed from the index and today alone, so they are the same too.
C4_IndexLastWriteWins ==
    [][(pc = "index" /\ pc' = "streak") =>
        /\ \A k \in 1..Len(calendar.days) :
               Lookup(daily_contributions', EntryDate(k)) = LastCount(EntryDate(k))
        /\ \A day \in {today - k : k \in {0, 1, 2, WindowDays - 1, WindowDays}} :
               Lookup(daily_contributions', day) = LastCount(day)
        /\ DOMAIN daily_contributions' = {EntryDate(k) : k \in 1..Len(calendar.days)}
        /\ NoDuplicateDates =>
               \A p \in Reorderings[Len(calendar.days)] :
                   InsertAll([k \in 1..Len(calendar.days) |-> calendar.days[p[k]]],
                             EmptyMap).map = daily_contributions'
      ]_vars

\* the index of three entries with three different dates has been built
C4_Witness ==
    /\ pc = "streak"
    /\ IndexSize = 3

\* the bar height of a day, from its count
ExpectedHeight(day) ==
    LET c == IF day \in DOMAIN daily_contributions THEN daily_contributions[day]
             ELSE <<0, 0>>
    IN  IF c[1] > 0 \/ c[2] >= 5 THEN 34 ELSE c[2] * 6 + 4

\* C10: the window loop emits 30 bars, oldest day first: bar k (from 0) has
\* the height of day today - (29 - k), x = 24 + 6k and y = 160 - height, so
\* y + height = 160 and y >= 126; x grows from 24 to 198.
C10_Bars ==
    /\ pc = "window" => Len(bars) = 29 - i
    /\ AfterWindow =>
         /\ Len(bars) = 30
         /\ \A k \in 0..29 :
              /\ bars[k + 1].height = ExpectedHeight(today - (29 - k))
              /\ bars[k + 1].x = 24 + 6 * k
              /\ bars[k + 1].y = 160 - bars[k + 1].height
              /\ bars[k + 1].y + bars[k + 1].height = 160
              /\ bars[k + 1].y >= 126
         /\ \A k \in 1..29 : bars[k].x < bars[k + 1].x
         /\ bars[1].x = 24 /\ bars[30].x = 198

\* the oldest day of the window has count 1 and today has a count above the
\* clamp
C10_Witness ==
    /\ pc = "render"
    /\ today = DateOf(2024, 3, 1)
    /\ Lookup(daily_contributions, DateOf(2024, 2, 1)) = <<0, 1>>
    /\ bars[1].height = 10
    /\ bars[30].height = 34
    /\ bars[30].y = 126

\* the window's days, as offsets back from today, that are active
WindowActive == {k \in 0..29 : Active(today - k)}

\* the count of a day, 0 when it has no entry
CountOf(day) ==
    IF day \in DOMAIN daily_contributions THEN daily_contributions[day] ELSE <<0, 0>>

\* the sum of the counts of the days today - k .. today, without a width
RECURSIVE WindowSum(_)
WindowSum(k) == IF k < 0 THEN <<0, 0>> ELSE WideAdd(WindowSum(k - 1), CountOf(today - k))

\* the sum of a list of u32, without a width
RECURSIVE ListSum(_)
ListSum(xs) == IF xs = <<>> THEN <<0, 0>> ELSE WideAdd(ListSum(Tail(xs)), Head(xs))

\* C5: after the window loop active_30 is the number of active days among
\* today - 29 .. today, so 0 <= active_30 <= 30; commits_30 >= active_30,
\* with equality when every active day of the window has count 1; both are 0
\* for an empty index.
C5_WindowCounts ==
    AfterWindow =>
        /\ active_30 = Cardinality(WindowActive)
        /\ 0 <= active_30 /\ active_30 <= 30
        /\ commits_30[1] > 0 \/ commits_30[2] >= active_30
        /\ (\A k \in WindowActive : daily_contributions[today - k] = <<0, 1>>)
               => commits_30 = <<0, active_30>>
        /\ IndexSize = 0 => (active_30 = 0 /\ commits_30 = <<0, 0>>)

\* C6: each bar's height is min(count, 5) * 6 + 4, within 4..34, 34 for every
\* count >= 5 and 4 for a day with count 0 or no entry, while commits_30 is
\* the sum of the counts themselves.
C6_HeightsAndTotal ==
    AfterWindow =>
        /\ \A k \in 0..29 :
              LET c == CountOf(today - (29 - k))
                  h == bars[k + 1].height
              IN  /\ h = (IF c[1] > 0 \/ c[2] >= 5 THEN 5 ELSE c[2]) * 6 + 4
                  /\ h >= 4 /\ h <= 34
                  /\ (c[1] > 0 \/ c[2] >= 5) => h = 34
                  /\ c = <<0, 0>> => h = 4
        /\ commits_30 = WindowSum(29)

\* C8: the rendered commits_30 is the sum of the window's counts and the
\* rendered stars the sum of the stargazers_count values, as numbers, not
\* modulo 2^32.
C8_NoSilentWrap ==
    pc \in {"write", "done"} =>
        /\ svg[1].commits_30 = WindowSum(29)
        /\ svg[1].stars = ListSum(repos)

\* C9: the backward walk ends: it evaluates its condition at most once more
\* than the index has dates, it stops at the first day, today or earlier,
\* that is not active, and for an empty index the first evaluation ends it
\* with 0.
C9_WalkTerminates ==
    /\ [](lookups <= IndexSize + 1)
    /\ [](AfterStreak =>
            /\ lookups = current_streak + 1
            /\ d = today - current_streak
            /\ ~Active(d)
            /\ \A k \in 0..(current_streak - 1) : Active(today - k)
            /\ IndexSize = 0 => (current_streak = 0 /\ lookups = 1))
    /\ (pc = "current") ~> (pc = "longest")

\* every date of the index is on the walk: one evaluation more than dates
C9_Witness ==
    /\ pc = "longest"
    /\ IndexSize = 3
    /\ lookups = 4

\* no usable token in the environment
NoToken == \A key \in {"GH_TOKEN", "GITHUB_TOKEN"} : environ[key] \in {Unset, "", "  "}

\* a fetched date string that names no day
BadDate == \E k \in 1..Len(calendar.days) : ~ParseFromStr(calendar.days[k].date).ok

\* no streak, window count or bar has been computed, nothing rendered, and
\* streak.svg is as it was
NoMetricComputed ==
    /\ lookups = 0
    /\ current_streak = 0 /\ longest = 0 /\ active_30 = 0
    /\ commits_30 = <<0, 0>>
    /\ bars = <<>>
    /\ svg = <<>>
    /\ file = Untouched

\* and the index has no entry
NothingComputed == daily_contributions = EmptyMap /\ NoMetricComputed

\* C7: when a request fails, the GraphQL response carries errors or lacks the
\* data, no token is usable, or a date does not parse, main returns Err,
\* nothing has been computed, streak.svg is not written, and no request is
\* sent twice.  Without a token the run never passes the calendar step: it
\* returns Err there, unless the sum of the stars has already panicked.  At
\* a date that does not parse the index holds the entries before it, and no
\* step reads it: main returns.
C7_FailFast ==
    /\ []((\E e \in Endpoints : outcome[e] \notin {"none", "ok"}) =>
             (pc = "error" /\ result = "Err" /\ NothingComputed))
    /\ [](NoToken =>
             /\ pc \in {"profile", "repos", "stars", "calendar", "error", "panic"}
             /\ sent.graphql = 0
             /\ NothingComputed)
    /\ [](\A e \in Endpoints : sent[e] <= 1)
    /\ [][(pc = "calendar" /\ NoToken) => (pc' = "error" /\ result' = "Err")]_vars
    /\ [][(pc = "index" /\ BadDate) =>
             (pc' = "error" /\ result' = "Err" /\ NoMetricComputed')]_vars
    /\ [][pc = "error" => pc' = "error"]_vars

\* the GraphQL response carried an errors list, after two good answers
C7_Witness ==
    /\ pc = "error"
    /\ outcome = [profile |-> "ok", repos |-> "ok", graphql |-> "errors"]
    /\ sent = [profile |-> 1, repos |-> 1, graphql |-> 1]

====
